---- MODULE Spec2Model ----
(***************************************************************************)
(* Model of internal/p4/depotfile.go: runAndParseDepotFiles (the pipeline  *)
(* of a command producer goroutine, an io.Pipe, a bufio.Scanner and the    *)
(* record tokenizer), getDepotPrefix and the DepotFileCaseInsensitive      *)
(* ordering.                                                               *)
(*                                                                         *)
(* Go strings are modelled as sequences of one-character strings, so that  *)
(* slicing, prefix tests, trimming and lower-casing are computed and not   *)
(* assumed.  The command's output is a sequence of lines; `pos` counts the *)
(* half-lines (a line's body, then its newline) that have crossed the      *)
(* pipe: pos = 2k is k whole lines, pos = 2k+1 is k whole lines and the    *)
(* body of line k+1 without its newline.  Where a pipe write is cut inside *)
(* a line's body makes no difference to bufio.ScanLines, which only looks  *)
(* for the newline.                                                        *)
(***************************************************************************)
EXTENDS Integers, Sequences, FiniteSets, TLC

VARIABLES
    cmd,          \* the command string passed to runAndParseDepotFiles
    pc,           \* position of the calling goroutine (the Orchestrator)
    streamDepth,  \* result of p.StreamDepth()
    depthCalls,   \* number of calls made to p.StreamDepth()
    stream,       \* lines the external command has written so far (see LineTable)
    pos,          \* half-lines that have crossed the pipe
    ppc,          \* position of the Producer goroutine
    errCmd,       \* the Producer's completion error
    wgDone,       \* wg.Done() has been called
    rerr,         \* the pipe's read-side close error  (pipe.rerr)
    werr,         \* the pipe's write-side close error (pipe.werr)
    consumed,     \* lines the Scanner has handed to the loop body
    sErr,         \* the Scanner's sticky error (Scanner.err)
    cur,          \* the in-progress record
    out,          \* the output collection
    prefix,       \* the resolved depot prefix
    aborts,       \* number of r.CloseWithError calls made by the loop body
    ret,          \* what runAndParseDepotFiles returned
    pfLine,       \* getDepotPrefix applied on its own: the line argument
    pfDepth,      \*   the depth argument
    pfRes         \*   the result, once computed

pipeVars == <<cmd, pc, streamDepth, depthCalls, stream, pos, ppc, errCmd, wgDone,
              rerr, werr, consumed, sErr, cur, out, prefix, aborts, ret>>
pfVars == <<pfLine, pfDepth, pfRes>>
vars == <<pipeVars, pfVars>>

(***************************************************************************)
(* Bounds of the model.                                                    *)
(***************************************************************************)
MaxLines == 4
MaxDepth == 2
MaxPathLen == 6
MaxPrefixDepth == 2

(***************************************************************************)
(* Go's strings package, on sequences of characters.                       *)
(***************************************************************************)
HasPrefix(s, p) ==
    Len(s) >= Len(p) /\ SubSeq(s, 1, Len(p)) = p

\* s[n:] ; Go panics when n > len(s), see CanSlice
SliceFrom(s, n) ==
    SubSeq(s, n + 1, Len(s))

CanSlice(s, n) ==
    n <= Len(s)

TrimPrefix(s, p) ==
    IF HasPrefix(s, p) THEN SliceFrom(s, Len(p)) ELSE s

IsSpace(c) ==
    c \in {" ", "\t", "\n", "\r"}

RECURSIVE TrimLeft(_)
TrimLeft(s) ==
    IF Len(s) > 0 /\ IsSpace(s[1]) THEN TrimLeft(Tail(s)) ELSE s

RECURSIVE TrimRight(_)
TrimRight(s) ==
    IF Len(s) > 0 /\ IsSpace(s[Len(s)]) THEN TrimRight(SubSeq(s, 1, Len(s) - 1)) ELSE s

TrimSpace(s) ==
    TrimRight(TrimLeft(s))

\* strings.Contains
Contains(s, sub) ==
    \E i \in 0..(Len(s) - Len(sub)) : SubSeq(s, i + 1, i + Len(sub)) = sub

\* strings.Index(s, c) for a one-character needle: 0-based, -1 when absent
Index(s, c) ==
    IF \E i \in 1..Len(s) : s[i] = c
    THEN (CHOOSE i \in 1..Len(s) : s[i] = c /\ \A j \in 1..(i - 1) : s[j] # c) - 1
    ELSE -1

Upper == <<"A", "B", "C", "D", "E", "F", "G", "H", "I", "J", "K", "L", "M",
           "N", "O", "P", "Q", "R", "S", "T", "U", "V", "W", "X", "Y", "Z">>
Lower == <<"a", "b", "c", "d", "e", "f", "g", "h", "i", "j", "k", "l", "m",
           "n", "o", "p", "q", "r", "s", "t", "u", "v", "w", "x", "y", "z">>

LowerChar(c) ==
    IF \E i \in 1..Len(Upper) : Upper[i] = c
    THEN Lower[CHOOSE i \in 1..Len(Upper) : Upper[i] = c]
    ELSE c

ToLower(s) ==
    [i \in 1..Len(s) |-> LowerChar(s[i])]

\* byte order of the characters that occur in the model (ASCII order)
Ascii == <<"\t", "\n", "\r", " ", "!", "-", ".", "/",
           "0", "1", "2", "3", "4", "5", "6", "7", "8", "9", ":">>
         \o Upper \o <<"_">> \o Lower

Code(c) ==
    CHOOSE i \in 1..Len(Ascii) : Ascii[i] = c

\* Go's < on strings: byte-wise lexicographic
StrLess(a, b) ==
    \E k \in 1..Len(b) :
        /\ \A j \in 1..(k - 1) : j <= Len(a) /\ a[j] = b[j]
        /\ \/ k > Len(a)
           \/ Code(a[k]) < Code(b[k])

(***************************************************************************)
(* Errors.  kind names the error, cause the error it wraps (%w), text the  *)
(* text it carries.                                                        *)
(***************************************************************************)
Err(kind, cause, text) ==
    [kind |-> kind, cause |-> cause, text |-> text]

NoErr == Err("nil", "nil", <<>>)

(***************************************************************************)
(* getDepotPrefix                                                          *)
(***************************************************************************)
\* the loop `for depth > 0 { i += strings.Index(line[i:], "/"); i++; depth-- }`
RECURSIVE PrefixEnd(_, _, _)
PrefixEnd(line, i, depth) ==
    IF depth > 0
    THEN PrefixEnd(line, i + Index(SliceFrom(line, i), "/") + 1, depth - 1)
    ELSE i

SlashSlash == <<"/", "/">>

\* variant of getDepotPrefix: the loop runs `for depth > 1`
getDepotPrefixOneShort(line, depth) ==
    IF ~HasPrefix(line, SlashSlash)
    THEN [prefix |-> <<>>, err |-> Err("format", "nil", line)]
    ELSE [prefix |-> SubSeq(line, 1, PrefixEnd(line, 2, depth - 1)), err |-> NoErr]

getDepotPrefix(line, depth) ==
    IF ~HasPrefix(line, SlashSlash)
    THEN [prefix |-> <<>>, err |-> Err("format", "nil", line)]
    ELSE [prefix |-> SubSeq(line, 1, PrefixEnd(line, 2, depth)), err |-> NoErr]

(***************************************************************************)
(* The text the code compares against.                                     *)
(***************************************************************************)
TagMarker == <<".", ".", ".", " ">>
TagDepotFile == <<"d", "e", "p", "o", "t", "F", "i", "l", "e">>
TagAction == <<"a", "c", "t", "i", "o", "n">>
TagChange == <<"c", "h", "a", "n", "g", "e">>
TagType == <<"t", "y", "p", "e">>
FlagZtag == <<"-", "z", "t", "a", "g">>
FlagZSpaceTag == <<"-", "z", " ", "t", "a", "g">>

(***************************************************************************)
(* Inputs: command strings and the lines the external command may print.   *)
(***************************************************************************)
CmdZtag == <<"p", "4", " ", "-", "z", "t", "a", "g">>
CmdZSpaceTag == <<"p", "4", " ", "-", "z", " ", "t", "a", "g">>
CmdPlain == <<"p", "4", " ", "-", "z">>
Cmds == {CmdZtag, CmdZSpaceTag, CmdPlain}

LineBlank == <<>>
\* "... depotFile //d/s/B"
LineFileB == <<".", ".", ".", " ", "d", "e", "p", "o", "t", "F", "i", "l", "e", " ",
               "/", "/", "d", "/", "s", "/", "B">>
\* "... depotFile //d/S/c": same depot, another stream of it
LineFileC == <<".", ".", ".", " ", "d", "e", "p", "o", "t", "F", "i", "l", "e", " ",
               "/", "/", "d", "/", "S", "/", "c">>
\* "... action  e" with a carriage return before the newline
LineAction == <<".", ".", ".", " ", "a", "c", "t", "i", "o", "n", " ", " ", "e", "\r">>
\* "junk": shorter than 5 characters and without the "... " marker
LineJunk == <<"j", "u", "n", "k">>

\* "... depotFile x": a depotFile value that does not begin with "//"
LineFileRel == <<".", ".", ".", " ", "d", "e", "p", "o", "t", "F", "i", "l", "e", " ", "x">>
\* "... actionOwner bob": a tag that is none of the four but begins with one
LineOwner == <<".", ".", ".", " ", "a", "c", "t", "i", "o", "n", "O", "w", "n", "e", "r", " ",
               "b", "o", "b">>
\* "... depotFile": a recognised tag with no value at all
LineBare == <<".", ".", ".", " ", "d", "e", "p", "o", "t", "F", "i", "l", "e">>

\* the command's output is kept as the numbers of its lines in this table
LineTable == <<LineBlank, LineFileB, LineFileC, LineAction, LineJunk,
               LineFileRel, LineOwner, LineBare>>

LineText(id) ==
    LineTable[id]

LineId(text) ==
    CHOOSE id \in 1..Len(LineTable) : LineTable[id] = text

\* what the command prints when its output may be malformed
AnyLines == {LineId(LineBlank), LineId(LineFileB), LineId(LineAction), LineId(LineJunk)}

\* what the command prints when it marks every line but is loose about tags
\* and values
LooseLines == {LineId(LineBlank), LineId(LineFileB), LineId(LineFileRel), LineId(LineOwner),
               LineId(LineBare)}

\* what the command prints when it keeps to the tagged-output protocol
TaggedLines == {LineId(LineBlank), LineId(LineFileB), LineId(LineFileC), LineId(LineAction)}

(***************************************************************************)
(* DepotFile and the loop body of the Tokenizer.                           *)
(***************************************************************************)
EmptyFile == [Path |-> <<>>, Action |-> <<>>, CL |-> <<>>, Type |-> <<>>]

NoRet == [files |-> <<>>, err |-> NoErr]

\* bufio.ScanLines drops one trailing carriage return from the token
DropCR(s) ==
    IF Len(s) > 0 /\ s[Len(s)] = "\r" THEN SubSeq(s, 1, Len(s) - 1) ELSE s

\* variant of ValidCmd: looks for "-z" alone
ValidCmdDashZ(c) ==
    Contains(c, <<"-", "z">>)

ValidCmd(c) ==
    ~(~Contains(c, FlagZtag) /\ ~Contains(c, FlagZSpaceTag))

\* case len(line) < 5 || !strings.HasPrefix(line, "... ")
Malformed(line) ==
    Len(line) < 5 \/ ~HasPrefix(line, TagMarker)

\* variant of EndRecord: cur is not reset
EndRecordKeepsCur(c, o) ==
    [cur |-> c, out |-> IF Len(c.Path) # 0 THEN Append(o, c) ELSE o]

\* variant of EndRecord: cur is appended whether or not it has a Path
EndRecordAlwaysAppends(c, o) ==
    [cur |-> EmptyFile, out |-> Append(o, c)]

\* the blank-line branch: append cur if it has a Path, reset cur
EndRecord(c, o) ==
    [cur |-> EmptyFile, out |-> IF Len(c.Path) # 0 THEN Append(o, c) ELSE o]

\* variant of StripPrefix: the raw path is stored as it is
StripPrefixNone(raw, p) ==
    raw

\* cur.Path = strings.TrimPrefix(raw, prefix)
StripPrefix(raw, p) ==
    TrimPrefix(raw, p)

\* case strings.HasPrefix(line[4:], "depotFile")
DepotFileField(line, st, depth) ==
    IF ~CanSlice(line, 14)
    THEN [st EXCEPT !.panic = TRUE]
    ELSE LET raw == TrimSpace(SliceFrom(line, 14))
             res == IF Len(st.prefix) = 0
                    THEN getDepotPrefix(raw, depth)
                    ELSE [prefix |-> st.prefix, err |-> NoErr]
         IN  IF res.err # NoErr
             THEN [st EXCEPT !.prefix = res.prefix,
                             !.abort = Err("prefix", res.err.kind, res.err.text)]
             ELSE [st EXCEPT !.prefix = res.prefix,
                             !.cur.Path = StripPrefix(raw, res.prefix)]

\* one iteration of `for s.Scan() { ... }` on the token `text`
LoopBody(text, c, o, p, depth) ==
    LET line == TrimSpace(text)
        st == [cur |-> c, out |-> o, prefix |-> p, abort |-> NoErr, panic |-> FALSE]
    IN  IF Len(line) = 0
        THEN [st EXCEPT !.cur = EndRecord(c, o).cur, !.out = EndRecord(c, o).out]
        ELSE IF Malformed(line)
        THEN [st EXCEPT !.abort = Err("proto", "nil", line)]
        ELSE IF HasPrefix(SliceFrom(line, 4), TagDepotFile)
        THEN DepotFileField(line, st, depth)
        ELSE IF HasPrefix(SliceFrom(line, 4), TagAction)
        THEN IF CanSlice(line, 10)
             THEN [st EXCEPT !.cur.Action = TrimSpace(SliceFrom(line, 10))]
             ELSE [st EXCEPT !.panic = TRUE]
        ELSE IF HasPrefix(SliceFrom(line, 4), TagChange)
        THEN IF CanSlice(line, 10)
             THEN [st EXCEPT !.cur.CL = TrimSpace(SliceFrom(line, 10))]
             ELSE [st EXCEPT !.panic = TRUE]
        ELSE IF HasPrefix(SliceFrom(line, 4), TagType)
        THEN IF CanSlice(line, 8)
             THEN [st EXCEPT !.cur.Type = TrimSpace(SliceFrom(line, 8))]
             ELSE [st EXCEPT !.panic = TRUE]
        ELSE st

(***************************************************************************)
(* DepotFileCaseInsensitive and sort.Sort.  sort.Sort is not stable: any   *)
(* arrangement of the same records with no pair out of order under Less is *)
(* a possible outcome.                                                     *)
(***************************************************************************)
\* variant of Less: compares the paths as they are
LessCaseSensitive(a, b) ==
    StrLess(a.Path, b.Path)

Less(a, b) ==
    StrLess(ToLower(a.Path), ToLower(b.Path))

Bijections(n) ==
    {f \in [1..n -> 1..n] : \A i, j \in 1..n : f[i] = f[j] => i = j}

SortOutcomes(o) ==
    {s \in {[i \in 1..Len(o) |-> o[f[i]]] : f \in Bijections(Len(o))} :
        \A i, j \in 1..Len(o) : i < j => ~Less(s[j], s[i])}

(***************************************************************************)
(* io.Pipe                                                                 *)
(***************************************************************************)
\* onceError.Store: the first stored error stays
StoreOnce(old, new) ==
    IF old # NoErr THEN old ELSE new

PipeDone ==
    rerr # NoErr \/ werr # NoErr

\* pipe.readCloseError
ReadCloseError(re, we) ==
    IF re = NoErr /\ we # NoErr THEN we ELSE Err("ErrClosedPipe", "nil", <<>>)

\* pipe.writeCloseError
WriteCloseError(re, we) ==
    IF we = NoErr /\ re # NoErr THEN re ELSE Err("ErrClosedPipe", "nil", <<>>)

(***************************************************************************)
(* bufio.Scanner over the read end                                         *)
(***************************************************************************)
\* a whole line is buffered, or the read has failed and a final unterminated
\* line is buffered (ScanLines hands it out at EOF)
TokenReady ==
    \/ pos >= 2 * consumed + 2
    \/ sErr # NoErr /\ pos = 2 * consumed + 1

\* the Scanner has no token and must call Read on the pipe
NeedsRead ==
    sErr = NoErr /\ pos <= 2 * consumed + 1

\* variant of ScannerErr: the Scanner's error is never looked at
ScannerErrIgnored(e) ==
    NoErr

\* Scanner.Err(): io.EOF is not an error
ScannerErr(e) ==
    IF e.kind = "EOF" THEN NoErr ELSE e

(***************************************************************************)
(* How runAndParseDepotFiles composes what it returns.                     *)
(***************************************************************************)
ConfigError(c) ==
    [files |-> <<>>, err |-> Err("config", "nil", c)]

DepthError(e) ==
    [files |-> <<>>, err |-> e]

\* variant of AfterDepth: the lookup's error is not checked
AfterDepthUnchecked(e) ==
    "spawn"

\* after p.StreamDepth(): return on error, else go on to start the Producer
AfterDepth(e) ==
    IF e # NoErr THEN "done" ELSE "spawn"

\* variant of ScanError: hands back what was parsed so far with the error
ScanErrorWithPartial(e, o) ==
    [files |-> o, err |-> Err("scan", e.kind, e.text)]

\* if err := s.Err(); err != nil { return nil, fmt.Errorf(`error scanning for files: %w`, err) }
ScanError(e, o) ==
    [files |-> <<>>, err |-> Err("scan", e.kind, e.text)]

\* if errCmd != nil { return nil, fmt.Errorf(`error listing files: %w`, errCmd) }
ListError(e, o) ==
    [files |-> <<>>, err |-> Err("listing", e.kind, e.text)]

Success(sorted) ==
    [files |-> sorted, err |-> NoErr]

(***************************************************************************)
(* The calling goroutine.                                                  *)
(***************************************************************************)
PipeIdle ==
    /\ pc = "start"
    /\ streamDepth = 0
    /\ depthCalls = 0
    /\ stream = <<>>
    /\ pos = 0
    /\ ppc = "idle"
    /\ errCmd = NoErr
    /\ wgDone = FALSE
    /\ rerr = NoErr
    /\ werr = NoErr
    /\ consumed = 0
    /\ sErr = NoErr
    /\ cur = EmptyFile
    /\ out = <<>>
    /\ prefix = <<>>
    /\ aborts = 0
    /\ ret = NoRet

PfIdle ==
    /\ pfLine = <<>>
    /\ pfDepth = 0
    /\ pfRes = [prefix |-> <<>>, err |-> NoErr, done |-> FALSE]

Init ==
    /\ cmd \in Cmds
    /\ PipeIdle
    /\ PfIdle

\* lines 25-27
Validate ==
    /\ pc = "start"
    /\ IF ValidCmd(cmd)
       THEN pc' = "depth" /\ ret' = ret
       ELSE pc' = "done" /\ ret' = ConfigError(cmd)
    /\ UNCHANGED <<cmd, streamDepth, depthCalls, stream, pos, ppc, errCmd, wgDone,
                   rerr, werr, consumed, sErr, cur, out, prefix, aborts, pfVars>>

DepthResults ==
    {[depth |-> d, err |-> NoErr] : d \in 1..MaxDepth}
        \cup {[depth |-> 0, err |-> Err("depth", "nil", <<>>)]}

\* lines 29-32
StreamDepth ==
    /\ pc = "depth"
    /\ \E r \in DepthResults :
        /\ streamDepth' = r.depth
        /\ pc' = AfterDepth(r.err)
        /\ ret' = IF pc' = "done" THEN DepthError(r.err) ELSE ret
    /\ depthCalls' = depthCalls + 1
    /\ UNCHANGED <<cmd, stream, pos, ppc, errCmd, wgDone, rerr, werr, consumed, sErr,
                   cur, out, prefix, aborts, pfVars>>

\* lines 34-47: make the pipe, start the Producer, set up out, cur, prefix, Scanner
Spawn ==
    /\ pc = "spawn"
    /\ pc' = "scan"
    /\ ppc' = "run"
    /\ UNCHANGED <<cmd, streamDepth, depthCalls, stream, pos, errCmd, wgDone, rerr, werr,
                   consumed, sErr, cur, out, prefix, aborts, ret, pfVars>>

\* lines 48-80: s.Scan() yields a token and the loop body runs on it
TokenizerStep ==
    /\ pc = "scan"
    /\ TokenReady
    /\ LET r == LoopBody(DropCR(LineText(stream[consumed + 1])), cur, out, prefix, streamDepth)
       IN  /\ cur' = r.cur
           /\ out' = r.out
           /\ prefix' = r.prefix
           /\ rerr' = IF r.abort # NoErr THEN StoreOnce(rerr, r.abort) ELSE rerr
           /\ aborts' = IF r.abort # NoErr THEN aborts + 1 ELSE aborts
           /\ pc' = IF r.panic THEN "panic" ELSE "scan"
    /\ consumed' = consumed + 1
    /\ UNCHANGED <<cmd, streamDepth, depthCalls, stream, pos, ppc, errCmd, wgDone, werr,
                   sErr, ret, pfVars>>

\* s.Scan() calls Read on a pipe that is closed: the Scanner keeps the error
ScanRead ==
    /\ pc = "scan"
    /\ NeedsRead
    /\ PipeDone
    /\ sErr' = ReadCloseError(rerr, werr)
    /\ UNCHANGED <<cmd, pc, streamDepth, depthCalls, stream, pos, ppc, errCmd, wgDone,
                   rerr, werr, consumed, cur, out, prefix, aborts, ret, pfVars>>

\* s.Scan() returns false; lines 81-84
ScanEnd ==
    /\ pc = "scan"
    /\ sErr # NoErr
    /\ ~TokenReady
    /\ IF ScannerErr(sErr) # NoErr
       THEN pc' = "done" /\ ret' = ScanError(ScannerErr(sErr), out)
       ELSE pc' = "wait" /\ ret' = ret
    /\ UNCHANGED <<cmd, streamDepth, depthCalls, stream, pos, ppc, errCmd, wgDone, rerr,
                   werr, consumed, sErr, cur, out, prefix, aborts, pfVars>>

\* variant of WaitReturns: the call does not wait for the Producer
WaitReturnsAtOnce ==
    TRUE

\* wg.Wait() returns once wg.Done() has brought the counter to zero
WaitReturns ==
    wgDone

\* line 86: wg.Wait()
Wait ==
    /\ pc = "wait"
    /\ WaitReturns
    /\ pc' = "compose"
    /\ UNCHANGED <<cmd, streamDepth, depthCalls, stream, pos, ppc, errCmd, wgDone, rerr,
                   werr, consumed, sErr, cur, out, prefix, aborts, ret, pfVars>>

\* lines 87-93
Compose ==
    /\ pc = "compose"
    /\ pc' = "done"
    /\ IF errCmd # NoErr
       THEN ret' = ListError(errCmd, out)
       ELSE \E sorted \in SortOutcomes(out) : ret' = Success(sorted)
    /\ UNCHANGED <<cmd, streamDepth, depthCalls, stream, pos, ppc, errCmd, wgDone, rerr,
                   werr, consumed, sErr, cur, out, prefix, aborts, pfVars>>

(***************************************************************************)
(* The Producer goroutine, lines 38-42.                                    *)
(***************************************************************************)
\* what the command has printed once it adds the lines `new`, the last of them
\* without its newline when half = 1
Extended(new, half) ==
    [lines |-> stream \o new, pos |-> 2 * (Len(stream) + Len(new)) - half]

\* the command has bounded output: it can print more while fewer than MaxLines
\* lines are out or the last line still lacks its newline
CanPrintMore ==
    Len(stream) < MaxLines \/ pos = 2 * Len(stream) - 1

\* line 39, the command prints: its output is handed to w.Write, which blocks
\* until the read side takes it or the pipe is closed
ProducerOffer ==
    /\ ppc = "run"
    /\ CanPrintMore
    /\ ppc' = "write"
    /\ UNCHANGED <<cmd, pc, streamDepth, depthCalls, stream, pos, errCmd, wgDone, rerr,
                   werr, consumed, sErr, cur, out, prefix, aborts, ret, pfVars>>

\* variant of WriteFails: a write to a pipe whose read side is closed blocks
WriteBlocksWhenClosed ==
    FALSE

\* pipe.write: `case <-p.done: return n, p.writeCloseError()`
WriteFails ==
    PipeDone

\* what RunErr returns when the write of the command's output has failed
WriteError ==
    Err("write", WriteCloseError(rerr, werr).kind, WriteCloseError(rerr, werr).text)

\* line 39, w.Write: on a closed pipe the write fails and RunErr returns its
\* error; on an open pipe the write meets the Scanner's Read (pipe.write meets
\* pipe.read; the pipe holds no data of its own)
ProducerWrite(pool) ==
    /\ ppc = "write"
    /\ IF WriteFails
       THEN /\ errCmd' = WriteError
            /\ ppc' = "close"
            /\ UNCHANGED <<stream, pos>>
       ELSE /\ ~PipeDone
            /\ pc = "scan"
            /\ NeedsRead
            /\ \E n \in 0..(MaxLines - Len(stream)) : \E new \in [1..n -> pool] :
                   \E half \in {0, 1} :
                    LET e == Extended(new, half)
                    IN  /\ e.pos > pos
                        /\ half = 1 => Len(LineText(e.lines[Len(e.lines)])) > 0
                        /\ stream' = e.lines
                        /\ pos' = e.pos
            /\ ppc' = "run"
            /\ errCmd' = errCmd
    /\ UNCHANGED <<cmd, pc, streamDepth, depthCalls, wgDone, rerr, werr,
                   consumed, sErr, cur, out, prefix, aborts, ret, pfVars>>

\* the errors RunErr can return when the command exits of itself
RunErrOutcomes ==
    {NoErr, Err("exit", "nil", <<>>)}

\* line 39: the command exits and errCmd = bs.Cmd(cmd).Out(w).RunErr()
ProducerExit ==
    /\ ppc = "run"
    /\ \E e \in RunErrOutcomes : errCmd' = e
    /\ ppc' = "close"
    /\ UNCHANGED <<cmd, pc, streamDepth, depthCalls, stream, pos, wgDone, rerr, werr,
                   consumed, sErr, cur, out, prefix, aborts, ret, pfVars>>

\* line 40: w.Close()
ProducerClose ==
    /\ ppc = "close"
    /\ werr' = StoreOnce(werr, Err("EOF", "nil", <<>>))
    /\ ppc' = "signal"
    /\ UNCHANGED <<cmd, pc, streamDepth, depthCalls, stream, pos, errCmd, wgDone, rerr,
                   consumed, sErr, cur, out, prefix, aborts, ret, pfVars>>

\* line 41: wg.Done()
ProducerDone ==
    /\ ppc = "signal"
    /\ wgDone' = TRUE
    /\ ppc' = "finished"
    /\ UNCHANGED <<cmd, pc, streamDepth, depthCalls, stream, pos, errCmd, rerr, werr,
                   consumed, sErr, cur, out, prefix, aborts, ret, pfVars>>

Next ==
    \/ Validate
    \/ StreamDepth
    \/ Spawn
    \/ TokenizerStep
    \/ ScanRead
    \/ ScanEnd
    \/ Wait
    \/ Compose
    \/ ProducerOffer
    \/ ProducerWrite(AnyLines)
    \/ ProducerExit
    \/ ProducerClose
    \/ ProducerDone

Spec == Init /\ [][Next]_vars

\* the same program run on a command that keeps to the tagged-output protocol
NextTagged ==
    \/ Validate
    \/ StreamDepth
    \/ Spawn
    \/ TokenizerStep
    \/ ScanRead
    \/ ScanEnd
    \/ Wait
    \/ Compose
    \/ ProducerOffer
    \/ ProducerWrite(TaggedLines)
    \/ ProducerExit
    \/ ProducerClose
    \/ ProducerDone

SpecTagged == Init /\ [][NextTagged]_vars

\* the same program run on a command that is loose about tags and values
NextLoose ==
    \/ Validate
    \/ StreamDepth
    \/ Spawn
    \/ TokenizerStep
    \/ ScanRead
    \/ ScanEnd
    \/ Wait
    \/ Compose
    \/ ProducerOffer
    \/ ProducerWrite(LooseLines)
    \/ ProducerExit
    \/ ProducerClose
    \/ ProducerDone

SpecLoose == Init /\ [][NextLoose]_vars

\* what the command prints in the runs that are followed to their end
FairLines == {LineId(LineFileB), LineId(LineJunk), LineId(LineBare)}

NextFair ==
    \/ Validate
    \/ StreamDepth
    \/ Spawn
    \/ TokenizerStep
    \/ ScanRead
    \/ ScanEnd
    \/ Wait
    \/ Compose
    \/ ProducerOffer
    \/ ProducerWrite(FairLines)
    \/ ProducerExit
    \/ ProducerClose
    \/ ProducerDone

\* the steps the Producer goroutine takes without the command choosing to
\* print more: a pipe write that is under way, the command's exit, w.Close()
\* and wg.Done() (lines 39-41)
ProducerRuns ==
    \/ ProducerWrite(FairLines)
    \/ ProducerExit
    \/ ProducerClose
    \/ ProducerDone

\* The Producer goroutine keeps running while it has a step to take.  The
\* command is not obliged to print more (ProducerOffer), but one that is not
\* blocked in a write exits in the end, and one whose write has failed exits
\* as well.  Nothing is assumed of the calling goroutine.
Fairness ==
    WF_vars(ProducerRuns)

FairSpec == Init /\ [][NextFair]_vars /\ Fairness

(***************************************************************************)
(* getDepotPrefix on its own: every line over a small alphabet, every      *)
(* depth.                                                                  *)
(***************************************************************************)
PathChars == {"/", "a", "B"}

PathsUpTo(n) ==
    UNION {[1..k -> PathChars] : k \in 0..n}

InitPrefix ==
    /\ cmd = CmdZtag
    /\ PipeIdle
    /\ pfLine \in PathsUpTo(MaxPathLen)
    /\ pfDepth \in 1..MaxPrefixDepth
    /\ pfRes = [prefix |-> <<>>, err |-> NoErr, done |-> FALSE]

ResolvePrefix ==
    /\ pc = "start"
    /\ ~pfRes.done
    /\ LET r == getDepotPrefix(pfLine, pfDepth)
       IN  pfRes' = [prefix |-> r.prefix, err |-> r.err, done |-> TRUE]
    /\ UNCHANGED <<pipeVars, pfLine, pfDepth>>

NextPrefix ==
    ResolvePrefix

SpecPrefix == InitPrefix /\ [][NextPrefix]_vars

(***************************************************************************)
(* Properties.                                                             *)
(***************************************************************************)
\* the k-th line of the command's output as the loop body sees it
Tok(k) ==
    TrimSpace(DropCR(LineText(stream[k])))

Returned ==
    pc = "done"

\* the Producer was started, so the command was run
Ran ==
    ppc # "idle"

HasMalformedLine ==
    \E k \in 1..Len(stream) :
        Len(Tok(k)) > 0 /\ (Len(Tok(k)) < 5 \/ ~HasPrefix(Tok(k), TagMarker))

\* the output ends in a malformed line that has no newline after it
EndsInUnterminatedMalformed ==
    /\ Len(stream) > 0
    /\ pos = 2 * Len(stream) - 1
    /\ Len(Tok(Len(stream))) > 0
    /\ (Len(Tok(Len(stream))) < 5 \/ ~HasPrefix(Tok(Len(stream)), TagMarker))

\* C1: whenever the command's output holds a non-blank line that is shorter
\* than 5 characters or does not start with "... ", wherever it stands and
\* however the output was cut into writes, the call returns an error and no
\* records.
C1_MalformedLineAlwaysFails ==
    (Returned /\ Ran /\ HasMalformedLine) => (ret.err # NoErr /\ ret.files = <<>>)

\* what does hold of malformed lines: the error is lost only when the malformed
\* line is the last one and has no newline after it
MalformedLineFailsUnlessLastUnterminated ==
    (Returned /\ Ran /\ HasMalformedLine /\ ~EndsInUnterminatedMalformed) =>
        (ret.err # NoErr /\ ret.files = <<>>)

\* C2: a Scanner error is returned whatever errCmd is; without one, a non-nil
\* errCmd is returned; with neither, the sorted records are returned.
C2_ErrorPrecedence ==
    (Returned /\ Ran) =>
        /\ sErr.kind \notin {"nil", "EOF"} =>
               ret.err.kind = "scan" /\ ret.err.cause = sErr.kind /\ ret.files = <<>>
        /\ (sErr.kind = "EOF" /\ errCmd # NoErr) =>
               ret.err.kind = "listing" /\ ret.err.cause = errCmd.kind /\ ret.files = <<>>
        /\ (sErr.kind = "EOF" /\ errCmd = NoErr) =>
               ret.err = NoErr /\ ret.files \in SortOutcomes(out)

\* a Scanner error was returned although the Producer's error is set as well
C2_Witness ==
    Returned /\ ret.err.kind = "scan" /\ errCmd # NoErr /\ ppc = "finished"

\* C3: what is returned is either no records and an error, or records and no
\* error.
C3_NoRecordsWithError ==
    Returned => (ret.err = NoErr \/ ret.files = <<>>)

\* an error was returned after records had been appended to out
C3_Witness ==
    Returned /\ ret.err # NoErr /\ Len(out) > 0

\* C4: a command with neither "-ztag" nor "-z tag" gets a configuration error
\* at once: no depth lookup, no pipe, no Producer, no command run.
C4_MissingFlagNoSideEffects ==
    (~Contains(cmd, FlagZtag) /\ ~Contains(cmd, FlagZSpaceTag)) =>
        /\ pc \in {"start", "done"}
        /\ Returned => (ret.err.kind = "config" /\ ret.files = <<>>)
        /\ depthCalls = 0
        /\ ppc = "idle"
        /\ stream = <<>> /\ pos = 0
        /\ rerr = NoErr /\ werr = NoErr /\ errCmd = NoErr /\ ~wgDone

C4_Witness ==
    Returned /\ ret.err.kind = "config" /\ ~Contains(cmd, FlagZtag)

\* the depth lookup was made and failed
DepthLookupFailed ==
    depthCalls > 0 /\ streamDepth = 0

\* C5: when the depth lookup fails, its error is returned and the Producer is
\* never started.
C5_DepthErrorShortCircuits ==
    DepthLookupFailed =>
        /\ Returned
        /\ ret.err.kind = "depth" /\ ret.files = <<>>
        /\ ppc = "idle"
        /\ stream = <<>> /\ pos = 0
        /\ errCmd = NoErr /\ ~wgDone

C5_Witness ==
    DepthLookupFailed /\ Returned

(***************************************************************************)
(* The records of a stream, read off the stream as a whole.                *)
(***************************************************************************)
AllTokens == 1..Len(stream)

IsBlankLine(k) ==
    Len(Tok(k)) = 0

\* line k is "... <tag>..." with a tag that the Tokenizer takes for `tag`
HasTag(k, tag) ==
    HasPrefix(Tok(k), TagMarker) /\ HasPrefix(SliceFrom(Tok(k), 4), tag)

\* the value of line k when its tag has n characters
ValueOf(k, n) ==
    TrimSpace(SliceFrom(Tok(k), 4 + n + 1))

FileLines ==
    {k \in AllTokens : HasTag(k, TagDepotFile)}

RawPath(k) ==
    ValueOf(k, Len(TagDepotFile))

\* "... " then a tag, a space and a value; a depotFile value begins with "//"
WellFormedLine(k) ==
    \/ IsBlankLine(k)
    \/ /\ HasPrefix(Tok(k), TagMarker)
       /\ \E i \in 6..(Len(Tok(k)) - 1) :
              /\ Tok(k)[i] = " "
              /\ \A j \in 5..(i - 1) : Tok(k)[j] # " "
              /\ Len(TrimSpace(SliceFrom(Tok(k), i))) > 0
       /\ HasTag(k, TagDepotFile) => HasPrefix(RawPath(k), SlashSlash)

WellFormedStream ==
    \A k \in AllTokens : WellFormedLine(k)

\* the first line of the record that blank line b ends
RecordStart(b) ==
    IF \E k \in 1..(b - 1) : IsBlankLine(k)
    THEN 1 + CHOOSE k \in 1..(b - 1) :
                 IsBlankLine(k) /\ \A j \in (k + 1)..(b - 1) : ~IsBlankLine(j)
    ELSE 1

\* the value of the last line with `tag` in the record that blank line b ends
LastValue(b, tag) ==
    LET ks == {k \in RecordStart(b)..(b - 1) : HasTag(k, tag)}
    IN  IF ks = {}
        THEN <<>>
        ELSE ValueOf(CHOOSE k \in ks : \A j \in ks : j <= k, Len(tag))

\* the prefix that the first depotFile line of the stream gives
FirstFilePrefix ==
    IF FileLines = {}
    THEN <<>>
    ELSE getDepotPrefix(RawPath(CHOOSE k \in FileLines : \A j \in FileLines : k <= j),
                        streamDepth).prefix

RecordAt(b) ==
    [Path |-> TrimPrefix(LastValue(b, TagDepotFile), FirstFilePrefix),
     Action |-> LastValue(b, TagAction),
     CL |-> LastValue(b, TagChange),
     Type |-> LastValue(b, TagType)]

\* the blank lines that end a record with a Path
RecordEnds ==
    {b \in AllTokens : IsBlankLine(b) /\ Len(RecordAt(b).Path) > 0}

\* the records of the stream in the order of the stream
RecordsOfStream ==
    [i \in 1..Cardinality(RecordEnds) |->
        RecordAt(CHOOSE b \in RecordEnds : Cardinality({x \in RecordEnds : x < b}) = i - 1)]

IsArrangementOf(a, b) ==
    /\ Len(a) = Len(b)
    /\ \E f \in Bijections(Len(a)) : \A i \in 1..Len(a) : a[i] = b[f[i]]

\* C6: for a well-formed stream of a command that succeeds, the returned list
\* holds one entry for each blank-line-terminated record with a Path, no more
\* and no fewer, and each entry has the field values of the lines of its own
\* record and of no other.
C6_OneEntryPerRecord ==
    (Returned /\ Ran /\ WellFormedStream /\ errCmd = NoErr /\ ppc = "finished") =>
        /\ ret.err = NoErr
        /\ IsArrangementOf(ret.files, RecordsOfStream)

\* a record without a Path, with an action, was dropped before a record with a
\* Path and no action was returned
C6_Witness ==
    /\ Returned /\ ret.err = NoErr
    /\ Len(ret.files) = 1 /\ ret.files[1].Action = <<>>
    /\ \E b \in AllTokens :
           /\ IsBlankLine(b)
           /\ Len(RecordAt(b).Path) = 0
           /\ Len(RecordAt(b).Action) > 0
           /\ \E e \in RecordEnds : b < e

\* C7: in a list returned without error, each entry's lower-cased Path is at
\* most the lower-cased Path of the entry after it.
C7_SortedIgnoringCase ==
    (Returned /\ ret.err = NoErr) =>
        \A i \in 1..(Len(ret.files) - 1) :
            ~StrLess(ToLower(ret.files[i + 1].Path), ToLower(ret.files[i].Path))

\* two entries were returned whose order by the Paths as written is the reverse
C7_Witness ==
    /\ Returned /\ ret.err = NoErr
    /\ Len(ret.files) = 2
    /\ StrLess(ret.files[2].Path, ret.files[1].Path)

\* C8: out grows only when a blank line is read while cur has a Path, and by
\* cur; nothing is appended once the stream has ended, so the list returned
\* holds the records of out and not the record still in progress.
C8_AppendOnlyAtRecordEnd ==
    [][/\ out' # out =>
            /\ pc = "scan"
            /\ consumed' = consumed + 1
            /\ IsBlankLine(consumed + 1)
            /\ Len(cur.Path) # 0
            /\ out' = Append(out, cur)
       /\ (pc # "done" /\ pc' = "done" /\ ret'.err = NoErr) =>
            IsArrangementOf(ret'.files, out)]_vars

\* the stream ended in a record with a Path and no blank line after it, and
\* the list returned holds only the record before it
C8_Witness ==
    /\ Returned /\ ret.err = NoErr
    /\ Len(stream) > 0 /\ ~IsBlankLine(Len(stream))
    /\ Len(cur.Path) > 0
    /\ Len(ret.files) = 1
    /\ Cardinality(FileLines) = 2

\* characters of q after the "//" marker that are slashes
SlashesAfterMarker(q) ==
    Cardinality({i \in 3..Len(q) : q[i] = "/"})

\* "//depot/main/Engine/foo.cpp"
ExamplePath == <<"/", "/", "d", "e", "p", "o", "t", "/", "m", "a", "i", "n", "/",
                 "E", "n", "g", "i", "n", "e", "/", "f", "o", "o", ".", "c", "p", "p">>
\* "//depot/main/"
ExamplePrefix == <<"/", "/", "d", "e", "p", "o", "t", "/", "m", "a", "i", "n", "/">>
\* "Engine/foo.cpp"
ExampleRelative == <<"E", "n", "g", "i", "n", "e", "/", "f", "o", "o", ".", "c", "p", "p">>

\* C9: for a line that begins with "//" and has at least D slash-terminated
\* segments after it, getDepotPrefix gives the part of the line up to and
\* with the D-th slash after the marker; for a line that does not begin with
\* "//" it gives a format error.  Depth 2 on "//depot/main/Engine/foo.cpp"
\* gives "//depot/main/", which leaves "Engine/foo.cpp".
C9_PrefixIsFirstSegments ==
    pfRes.done =>
        /\ ~HasPrefix(pfLine, SlashSlash) => pfRes.err.kind = "format"
        /\ (HasPrefix(pfLine, SlashSlash) /\ SlashesAfterMarker(pfLine) >= pfDepth) =>
               /\ pfRes.err = NoErr
               /\ HasPrefix(pfLine, pfRes.prefix)
               /\ pfRes.prefix[Len(pfRes.prefix)] = "/"
               /\ SlashesAfterMarker(pfRes.prefix) = pfDepth
        /\ getDepotPrefix(ExamplePath, 2).prefix = ExamplePrefix
        /\ StripPrefix(ExamplePath, getDepotPrefix(ExamplePath, 2).prefix) = ExampleRelative

\* a line with more than two segments was resolved at depth 2
C9_Witness ==
    /\ pfRes.done
    /\ pfDepth = 2
    /\ HasPrefix(pfLine, SlashSlash)
    /\ SlashesAfterMarker(pfLine) >= 2
    /\ pfRes.prefix # pfLine
    /\ Len(pfRes.prefix) > 4

C11_AbortErrorCarriesOffendingLine ==
    (Returned /\ Ran /\ rerr.kind = "proto" /\ ret.err.kind = "scan") =>
        (ret.err.cause = "proto" /\ ret.err.text = rerr.text)

\* every line of the output has its newline
AllLinesTerminated ==
    pos = 2 * Len(stream)

\* the depotFile lines whose value does not begin with "//"
NonAbsoluteFileLines ==
    {k \in FileLines : CanSlice(Tok(k), 14) /\ ~HasPrefix(RawPath(k), SlashSlash)}

\* C12: whenever the output holds a depotFile line whose value does not begin
\* with "//", be it the first depotFile line or a later one, the call returns
\* an error and no records.
C12_NonAbsoluteDepotFileFails ==
    (Returned /\ Ran /\ AllLinesTerminated /\ NonAbsoluteFileLines # {}) =>
        (ret.err # NoErr /\ ret.files = <<>>)

\* what does hold: the value of the first depotFile line is checked
FirstDepotFileIsChecked ==
    (Returned /\ Ran /\ AllLinesTerminated /\ FileLines # {}
        /\ (CHOOSE k \in FileLines : \A j \in FileLines : k <= j) \in NonAbsoluteFileLines) =>
        (ret.err # NoErr /\ ret.files = <<>>)

\* the tag name of a marked line: what stands between "... " and the next space
TagName(line) ==
    LET rest == SliceFrom(line, 4)
    IN  IF Index(rest, " ") = -1 THEN rest ELSE SubSeq(rest, 1, Index(rest, " "))

\* a line "... <tag> <value>" whose tag name is none of the four
HasOtherTag(line) ==
    /\ Len(line) >= 5
    /\ HasPrefix(line, TagMarker)
    /\ Index(SliceFrom(line, 4), " ") > 0
    /\ TagName(line) \notin {TagDepotFile, TagAction, TagChange, TagType}

\* the Tokenizer takes the next line of the output
TokenizerTakesLine ==
    pc = "scan" /\ consumed' = consumed + 1

\* C13: a Tokenizer step on a line whose tag name is not exactly depotFile,
\* action, change or type, a name that only begins with one of them included,
\* leaves cur, prefix and out as they were and does not abort.
C13_OtherTagsAreIgnored ==
    [][(TokenizerTakesLine /\ HasOtherTag(Tok(consumed + 1))) =>
           (cur' = cur /\ prefix' = prefix /\ out' = out /\ rerr' = rerr
               /\ aborts' = aborts /\ pc' = "scan")]_vars

\* the Producer goroutine has run to its end, wg.Done() included
ProducerFinished ==
    ppc = "finished" /\ wgDone

\* C14: on every path where the Producer was started the call has waited for
\* it before it returns, the scanning error path included: the call is never
\* back while the Producer still runs.
C14_NeverReturnsBeforeProducerEnds ==
    (Returned /\ Ran) => ProducerFinished

\* what does hold: the call waits on the paths that get past the scanning
\* error check of line 81
WaitsUnlessScanError ==
    (Returned /\ Ran /\ ret.err.kind # "scan") => ProducerFinished

\* C15: the Orchestrator reads errCmd (line 87, the step out of "compose") only
\* when the Producer has assigned it, closed the write end and called
\* wg.Done(); from then on errCmd is not written again, so the value read is
\* the Producer's final one.
C15_ErrCmdReadAfterProducerDone ==
    /\ [](pc = "compose" => ProducerFinished)
    /\ [][ProducerFinished => errCmd' = errCmd]_vars
    /\ []((Returned /\ ret.err.kind = "listing") => ret.err.cause = errCmd.kind)

\* the Orchestrator is about to read an errCmd that the Producer has set
C15_Witness ==
    pc = "compose" /\ errCmd # NoErr /\ ProducerFinished

\* C17: once the Tokenizer has closed the read side with an error, no write
\* of the Producer gets through any more and a write that is under way fails
\* with that error; so the Producer goes on to close the write end and to
\* signal the wait group.
C17_ProducerEndsAfterReadSideClosed ==
    /\ [][rerr # NoErr => (stream' = stream /\ pos' = pos)]_vars
    /\ [][(rerr # NoErr /\ ppc = "write" /\ ppc' # "write") =>
              (ppc' = "close" /\ errCmd' = Err("write", rerr.kind, rerr.text))]_vars
    /\ (rerr # NoErr) ~> ProducerFinished

\* a write has failed on the closed read side and the Producer has finished
C17_Witness ==
    ProducerFinished /\ rerr # NoErr /\ errCmd.kind = "write"

\* the external command has exited: RunErr has returned
CommandExited ==
    ppc \in {"close", "signal", "finished"}

\* one of the two goroutines has a step to take (pc = "scan" with a token
\* ready is when the loop body runs)
CanGoOn ==
    \/ pc = "scan" /\ TokenReady
    \/ ENABLED (Validate \/ StreamDepth \/ Spawn \/ ScanRead \/ ScanEnd \/ Wait \/ Compose)
    \/ ENABLED (ProducerOffer \/ ProducerWrite(LooseLines) \/ ProducerExit
                   \/ ProducerClose \/ ProducerDone)

\* C16: once the external command has exited, the call either has returned or
\* one of the two goroutines still has a step to take; no run ends, for any
\* output, with the call not returned.
C16_ReturnsOnceCommandExits ==
    (Ran /\ CommandExited) => (Returned \/ CanGoOn)

\* what does hold: a run that has come to its end without returning has
\* panicked in the loop body
EndsInReturnOrPanic ==
    (Ran /\ CommandExited) => (Returned \/ pc = "panic" \/ CanGoOn)

\* the depotFile lines the Tokenizer has taken so far
FileLinesSeen ==
    {k \in FileLines : k <= consumed}

FirstFileLineSeen ==
    CHOOSE k \in FileLinesSeen : \A j \in FileLinesSeen : k <= j

\* once the prefix is non-empty no step changes it
PrefixStaysOnceResolved ==
    prefix # <<>> => prefix' = prefix

\* with the prefix resolved, a depotFile line has that prefix taken off its
\* value, or its value stored as it is when it does not begin with the
\* prefix, and the step does not abort
LaterDepotFileIsStripped ==
    (TokenizerTakesLine /\ prefix # <<>> /\ HasTag(consumed + 1, TagDepotFile)
        /\ CanSlice(Tok(consumed + 1), 14)) =>
        /\ cur'.Path = (IF HasPrefix(RawPath(consumed + 1), prefix)
                        THEN SliceFrom(RawPath(consumed + 1), Len(prefix))
                        ELSE RawPath(consumed + 1))
        /\ rerr' = rerr /\ aborts' = aborts /\ pc' = "scan"

\* C18: the prefix is resolved once, from the first depotFile line the
\* Tokenizer sees: a non-empty prefix is what getDepotPrefix gives for that
\* line, it never changes again, and every later depotFile value is stripped
\* with it, without error.
C18_PrefixResolvedOnceFromFirstDepotFile ==
    /\ [](prefix # <<>> =>
             (FileLinesSeen # {}
                 /\ prefix = getDepotPrefix(RawPath(FirstFileLineSeen), streamDepth).prefix))
    /\ [][PrefixStaysOnceResolved /\ LaterDepotFileIsStripped]_vars

\* what does hold: whichever depotFile line has resolved the prefix, it stays
\* and later values are stripped with it
PrefixFixedOnceResolved ==
    [][PrefixStaysOnceResolved /\ LaterDepotFileIsStripped]_vars

\* C19: once the Tokenizer has aborted, no later line is interpreted: no step
\* takes another line, sets a field, appends a record, resolves the prefix or
\* aborts a second time.
C19_NothingInterpretedAfterAbort ==
    [][aborts > 0 =>
           (consumed' = consumed /\ cur' = cur /\ out' = out /\ prefix' = prefix
               /\ aborts' = aborts)]_vars

\* "... action", "... change", "... type": the other tags with no value
BareAction == TagMarker \o TagAction
BareChange == TagMarker \o TagChange
BareType == TagMarker \o TagType

\* C20: a Tokenizer step on any line ends as a record boundary, a field set,
\* an ignored line or an abort, and the loop is still running after it: the
\* step does not crash on a slice out of range, a recognised tag with no
\* value included.
C20_StepNeverCrashes ==
    [][TokenizerTakesLine =>
           /\ pc' = "scan"
           /\ IsBlankLine(consumed + 1) => (cur' = EmptyFile /\ aborts' = aborts)
           /\ ~IsBlankLine(consumed + 1) => out' = out
           /\ aborts' # aborts => (cur' = cur /\ out' = out)]_vars

\* what does hold: the other three tags with no value set an empty field, and
\* a step that does not crash has one of the four outcomes
OnlyBareDepotFileCrashes ==
    /\ LoopBody(BareAction, EmptyFile, <<>>, <<>>, 1).panic = FALSE
    /\ LoopBody(BareChange, EmptyFile, <<>>, <<>>, 1).panic = FALSE
    /\ LoopBody(BareType, EmptyFile, <<>>, <<>>, 1).panic = FALSE
    /\ LoopBody(LineBare, EmptyFile, <<>>, <<>>, 1).panic = TRUE
    /\ pc = "panic" => Tok(consumed) = LineBare

====
